---- MODULE Spec2Model ----
(***************************************************************************)
(* A model of push_resource.py: a spreadsheet of (type, name, link) rows   *)
(* is loaded and grouped by type, and for every type with enough rows a    *)
(* random sample is rendered as a text message and posted to a webhook.    *)
(*                                                                         *)
(* A Python str is a sequence of Unicode code points (len() counts code    *)
(* points), so a string is modelled as a sequence of naturals.  None is    *)
(* modelled by an option record, see Some and None.                        *)
(***************************************************************************)
EXTENDS Integers, Sequences, FiniteSets, TLC

VARIABLES
    pc,                   \* position of the interpreter in the script
    exit_code,            \* the process's exit code, -1 while it runs
    env,                  \* the process environment (os.getenv)
    WECHAT_WEBHOOK,       \* module global, line 11
    SEND_LINKS_PER_TYPE,  \* module global, line 16
    file_exists,          \* Path(EXCEL_FILE_PATH).exists()
    file_parses,          \* pd.read_excel succeeds on the file
    header,               \* the sheet's header row, as stored
    table,                \* the sheet's data rows, cells as stored
    type_res,             \* the catalog: ordered (key, items) pairs
    idx,                  \* loop index of the driver, 1-based
    res_type,             \* argument / loop variable: the type label
    res_list,             \* argument / loop variable: the type's items
    max_num,              \* argument of format_single_type_message
    random_res,           \* the sample drawn by random.sample
    msg_content,          \* the message returned by the formatter
    response,             \* what the webhook answered to the last POST
    log                   \* observable trace: prints, POSTs and sleeps

vars == <<pc, exit_code, env, WECHAT_WEBHOOK, SEND_LINKS_PER_TYPE, file_exists,
          file_parses, header, table, type_res, idx, res_type, res_list,
          max_num, random_res, msg_content, response, log>>

----------------------------------------------------------------------------
(* Bounds of the model.                                                    *)

MaxRows == 3      \* rows of a sheet handed to read_excel_and_classify alone
MaxList == 3      \* items of a list handed to the formatter alone
MaxTypes == 3     \* types of a sheet handed to the whole script

----------------------------------------------------------------------------
(* Strings.                                                                *)

None == [some |-> FALSE, val |-> <<>>]
Some(s) == [some |-> TRUE, val |-> s]

\* Python truthiness of an optional string: None and "" are falsy.
Truthy(x) == x.some /\ x.val # <<>>

Rep(c, n) == [i \in 1..n |-> c]

\* str.isspace() of one code point, as str.strip() uses it.
IsSpace(c) ==
    c \in (9..13) \cup (28..32) \cup {133, 160, 5760} \cup (8192..8202)
          \cup {8232, 8233, 8239, 8287, 12288}

RECURSIVE LStrip(_)
LStrip(s) == IF s # <<>> /\ IsSpace(Head(s)) THEN LStrip(Tail(s)) ELSE s

RECURSIVE RStrip(_)
RStrip(s) ==
    IF s # <<>> /\ IsSpace(s[Len(s)]) THEN RStrip(SubSeq(s, 1, Len(s) - 1)) ELSE s

\* str.strip()
Strip(s) == RStrip(LStrip(s))

\* str.startswith(p)
StartsWith(s, p) == Len(s) >= Len(p) /\ SubSeq(s, 1, Len(p)) = p

\* sub in s
Contains(s, sub) ==
    \E i \in 0..(Len(s) - Len(sub)) : SubSeq(s, i + 1, i + Len(sub)) = sub

\* str(n) for a natural n: its decimal digits
RECURSIVE Str(_)
Str(n) == IF n < 10 THEN <<48 + n>> ELSE Str(n \div 10) \o <<48 + (n % 10)>>

\* sep.join(parts)
RECURSIVE Join(_, _)
Join(sep, parts) ==
    IF parts = <<>> THEN <<>>
    ELSE IF Len(parts) = 1 THEN parts[1]
    ELSE parts[1] \o sep \o Join(sep, Tail(parts))

\* s[:n]
Prefix(s, n) == SubSeq(s, 1, IF Len(s) < n THEN Len(s) ELSE n)

----------------------------------------------------------------------------
(* Program constants.                                                      *)

TARGET_COL_TYPE == <<36164, 28304, 31867, 22411>>
TARGET_COL_NAME == <<36164, 28304, 21517, 31216>>
TARGET_COL_LINK == <<36164, 28304, 38142, 25509>>
DefaultLinksPerType == 5
NoName == <<26080, 21517, 31216>>
LinkPrefixes == {<<104, 116, 116, 112, 58, 47, 47>>,
                 <<104, 116, 116, 112, 115, 58, 47, 47>>}
MinItems == 5
MaxMsgLen == 4000
Footer ==
    <<128161, 32, 38656, 35201, 20854, 20182, 36164, 28304, 21487, 32852,
      31995, 25105, 65292, 26356, 22810, 36164, 26009, 21487, 22312, 35813,
      32593, 31449, 25628, 32034, 65306, 104, 116, 116, 112, 115, 58, 47, 47,
      100, 99, 110, 56, 113, 101, 120, 118, 103, 49, 51, 114, 46, 102, 101,
      105, 115, 104, 117, 46, 99, 110, 47, 119, 105, 107, 105, 47, 79, 65, 83,
      49, 119, 112, 121, 83, 83, 105, 101, 100, 67, 68, 107, 103, 110, 106,
      121, 99, 67, 122, 97, 56, 110, 70, 102, 63, 116, 97, 98, 108, 101, 61,
      116, 98, 108, 103, 115, 77, 120, 99, 51, 99, 108, 79, 108, 73, 99, 53,
      38, 118, 105, 101, 119, 61, 118, 101, 119, 81, 49, 65, 75, 74, 48, 68>>

----------------------------------------------------------------------------
(* read_excel_and_classify.                                                *)

\* line 42: the header with every column name stripped
CleanColumns(hdr) == [i \in 1..Len(hdr) |-> Strip(hdr[i])]

\* lines 43-44: the required columns that the cleaned header lacks
MissingCols(hdr) ==
    LET cols == {CleanColumns(hdr)[i] : i \in 1..Len(hdr)}
    IN  {c \in {Strip(TARGET_COL_TYPE), Strip(TARGET_COL_NAME),
                Strip(TARGET_COL_LINK)} : c \notin cols}

\* lines 54-56: one row with its three cells cleaned
CleanRow(row) ==
    [type |-> Strip(row.type),
     name |-> IF Strip(row.name) = <<>> THEN NoName ELSE Strip(row.name),
     link |-> Strip(row.link)]

\* Series.notna(): the sheet is read with dtype=str, keep_default_na=False and
\* na_filter=False, so every cell is a str, a blank cell is "", and str.strip
\* keeps it a str: no cell is ever NaN.
NotNa(cell) == TRUE

\* lines 59-63: the filter condition of one cleaned row
FilterCondition(row) ==
    /\ NotNa(row.type)
    /\ NotNa(row.link)
    /\ \E p \in LinkPrefixes : StartsWith(row.link, p)

\* lines 54-64: df_clean, the cleaned rows that pass the filter, in row order
DfClean(rows) ==
    SelectSeq([i \in 1..Len(rows) |-> CleanRow(rows[i])], FilterCondition)

\* position of key k in the ordered dict d, 0 when absent
KeyIndex(d, k) ==
    IF \E i \in 1..Len(d) : d[i].key = k
    THEN CHOOSE i \in 1..Len(d) : d[i].key = k
    ELSE 0

\* AppendItem with a new key put in front of the keys seen so far
AppendItem_NewFirst(d, row) ==
    LET item == <<row.name, row.link>>
        k == KeyIndex(d, row.type)
    IN  IF k = 0
        THEN <<[key |-> row.type, items |-> <<item>>]>> \o d
        ELSE [d EXCEPT ![k].items = Append(@, item)]

\* line 69: type_res_dict[row["type"]].append((row["name"], row["link"])) on a
\* defaultdict(list), which keeps its keys in insertion order
AppendItem(d, row) ==
    LET item == <<row.name, row.link>>
        k == KeyIndex(d, row.type)
    IN  IF k = 0
        THEN Append(d, [key |-> row.type, items |-> <<item>>])
        ELSE [d EXCEPT ![k].items = Append(@, item)]

\* lines 67-71: the loop over df_clean.iterrows()
RECURSIVE GroupRows(_, _)
GroupRows(d, rows) ==
    IF rows = <<>> THEN d ELSE GroupRows(AppendItem(d, Head(rows)), Tail(rows))

\* lines 25-71: the outcome of read_excel_and_classify on a file
ReadExcelAndClassify(exists, parses, hdr, rows) ==
    IF ~exists THEN [raised |-> TRUE, value |-> <<>>]
    ELSE IF ~parses THEN [raised |-> TRUE, value |-> <<>>]
    ELSE IF MissingCols(hdr) # {} THEN [raised |-> TRUE, value |-> <<>>]
    ELSE [raised |-> FALSE, value |-> GroupRows(<<>>, DfClean(rows))]

----------------------------------------------------------------------------
(* format_single_type_message.                                             *)

\* line 80: min(max_num, len(res_list))
SampleCount(n, lst) == IF n < Len(lst) THEN n ELSE Len(lst)

\* lst without its i-th entry
RemoveAt(lst, i) == SubSeq(lst, 1, i - 1) \o SubSeq(lst, i + 1, Len(lst))

\* the first position of lst that holds v
FirstIndex(lst, v) == CHOOSE i \in 1..Len(lst) : lst[i] = v /\ \A j \in 1..(i - 1) : lst[j] # v

\* line 81: the lists random.sample(lst, k) can return: k entries drawn from
\* distinct positions of lst, in the order drawn.  Which position an entry is
\* drawn from does not show in the list returned, so a draw of the value v is
\* taken from the first position that holds v.  No list is returned when k
\* exceeds the population: random.sample raises; the script never asks for
\* that (line 80).
SamplesOf[a \in Seq(Seq(Seq(Nat))) \X Nat] ==
    LET lst == a[1]
        k == a[2]
    IN  IF k = 0 THEN {<<>>}
        ELSE UNION {{<<v>> \o s : s \in SamplesOf[<<RemoveAt(lst, FirstIndex(lst, v)), k - 1>>]} :
                    v \in {lst[i] : i \in 1..Len(lst)}}

\* RandomSample drawing with replacement, as random.choices does
RandomSample_WithReplacement(lst, k) == [1..k -> {lst[i] : i \in 1..Len(lst)}]

RandomSample(lst, k) == SamplesOf[<<lst, k>>]

\* line 84: one numbered entry of the message, for the i-th sampled item
ItemLine(i, item) ==
    <<128218>> \o Str(i) \o <<46, 32>> \o item[1] \o <<65306, 10>> \o item[2]

\* line 84: the sampled entries, one per item, joined by newlines
ResStr(sample) == Join(<<10>>, [i \in 1..Len(sample) |-> ItemLine(i, sample[i])])

\* line 88: the label, the two counts, and the opening of the list
HeaderLine(label, total, k) ==
    label \o <<20849>> \o Str(total) \o <<26465, 65292, 38543, 26426, 25277, 21462>>
          \o Str(k) \o <<26465, 65289, 65306, 10>>

\* lines 87-91: the assembled message before the cut
FinalMsg(label, lst, sample) ==
    Join(<<10>>, <<HeaderLine(label, Len(lst), Len(sample)) \o ResStr(sample) \o <<10>>,
                   Footer>>)

\* line 77: the notice for an empty list
NoDataNotice(label) ==
    <<9888, 65039, 32, 12304>> \o label
        \o <<12305, 26080, 26377, 25928, 36164, 28304, 25968, 25454>>

\* FormatSingleTypeMessage without the cut of line 92
FormatSingleTypeMessage_NoCut(label, lst, sample) ==
    IF lst = <<>> THEN NoDataNotice(label) ELSE FinalMsg(label, lst, sample)

\* lines 74-92: the message returned for the sample drawn
FormatSingleTypeMessage(label, lst, sample) ==
    IF lst = <<>> THEN NoDataNotice(label)
    ELSE Prefix(FinalMsg(label, lst, sample), MaxMsgLen)

----------------------------------------------------------------------------
(* send_to_wechat_bot.                                                     *)

JInt(i) == [t |-> "int", i |-> i, s |-> ""]
JStr(s) == [t |-> "str", i |-> 0, s |-> s]
JNull == [t |-> "null", i |-> 0, s |-> ""]

\* What the webhook can answer to one POST: requests.post raises, the body is
\* no JSON, or it is a JSON value: an array, or an object with or without an
\* errcode field.
Responses ==
    {[kind |-> "exception", isobj |-> FALSE, obj |-> <<>>],
     [kind |-> "not_json", isobj |-> FALSE, obj |-> <<>>],
     [kind |-> "json", isobj |-> FALSE, obj |-> <<>>]}
    \cup
    {[kind |-> "json", isobj |-> TRUE, obj |-> o] :
        o \in {[errcode |-> JInt(0), errmsg |-> JStr("ok")],
               [errcode |-> JInt(93000), errmsg |-> JStr("invalid webhook")],
               [errmsg |-> JStr("ok")],
               [errcode |-> JStr("0"), errmsg |-> JStr("ok")],
               [errcode |-> JNull, errmsg |-> JStr("ok")]}}

\* dict.get(key): the value, or None (JSON null) when the key is absent
Get(obj, key) == IF key \in DOMAIN obj THEN obj[key] ELSE JNull

\* ErrcodeNotZero that lets a response without errcode pass
ErrcodeNotZero_WhenPresent(obj) ==
    "errcode" \in DOMAIN obj /\ ~(obj["errcode"].t = "int" /\ obj["errcode"].i = 0)

\* line 120: result.get("errcode") != 0
ErrcodeNotZero(obj) ==
    LET e == Get(obj, "errcode") IN ~(e.t = "int" /\ e.i = 0)

\* lines 95-125: whether a POST was issued, and whether the call returned True
\* (ok) or raised
SendToWechatBot(webhook, content, resp) ==
    IF ~Truthy(webhook) \/ content = <<>>
    THEN [posted |-> FALSE, ok |-> FALSE]
    ELSE [posted |-> TRUE,
          ok |-> /\ resp.kind = "json"
                 /\ resp.isobj
                 /\ ~ErrcodeNotZero(resp.obj)]

----------------------------------------------------------------------------
(* Inputs.                                                                 *)

Url == <<104, 116, 116, 112, 115, 58, 47, 47, 119>>     \* "https://w"
LinkX == <<104, 116, 116, 112, 115, 58, 47, 47, 120>>   \* "https://x"
LinkY == <<32, 104, 116, 116, 112, 58, 47, 47, 121, 32>> \* " http://y "
LinkUpper == <<72, 84, 84, 80, 83, 58, 47, 47, 120>>    \* "HTTPS://x"
LinkFtp == <<102, 116, 112, 58, 47, 47, 120>>           \* "ftp://x"

Row(t, n, l) == [type |-> t, name |-> n, link |-> l]

\* Rows of a sheet handed to read_excel_and_classify alone: types "A", " A ",
\* "B", "" and " "; names "n", "m" and " "; valid and invalid links.
RowKinds ==
    {Row(<<65>>, <<110>>, LinkX),
     Row(<<32, 65, 32>>, <<32>>, LinkY),
     Row(<<66>>, <<110>>, LinkX),
     Row(<<>>, <<110>>, LinkX),
     Row(<<32>>, <<109>>, LinkX),
     Row(<<66>>, <<109>>, LinkFtp),
     Row(<<65>>, <<109>>, LinkUpper),
     Row(<<66>>, <<110>>, <<>>)}

SmallTables == UNION {[1..n -> RowKinds] : n \in 0..MaxRows}

FullHeader == <<TARGET_COL_TYPE, TARGET_COL_NAME, TARGET_COL_LINK>>

\* Header rows: complete, complete with padded names and a fourth column in
\* another order, without the link column, and empty.
HeaderKinds ==
    {FullHeader,
     <<<<32>> \o TARGET_COL_LINK, <<88>>, TARGET_COL_NAME \o <<32>>, TARGET_COL_TYPE>>,
     <<TARGET_COL_TYPE, TARGET_COL_NAME>>,
     <<>>}

\* The c valid rows of type number t in a sheet handed to the whole script
\* (the first named "a", the others "b"), followed by one row with an
\* invalid link when the type has fewer than MinItems valid rows.
Block(t, c) ==
    [i \in 1..c |-> Row(<<64 + t>>, IF i = 1 THEN <<97>> ELSE <<98>>, LinkX)]
    \o (IF 0 < c /\ c < MinItems THEN <<Row(<<64 + t>>, <<98>>, LinkFtp)>> ELSE <<>>)

RECURSIVE Blocks(_, _)
Blocks(c, t) == IF t > Len(c) THEN <<>> ELSE Block(t, c[t]) \o Blocks(c, t + 1)

\* Valid rows per type: one fewer than the threshold, the threshold, one more.
Counts == (MinItems - 1)..(MinItems + 1)

\* Sheets of 0 to MaxTypes types.
MainTables == {Blocks(c, 1) : c \in UNION {[1..n -> Counts] : n \in 0..MaxTypes}}

\* int(s) of a string of decimal digits
RECURSIVE IntOf(_)
IntOf(s) ==
    IF s = <<>> THEN 0 ELSE 10 * IntOf(SubSeq(s, 1, Len(s) - 1)) + (s[Len(s)] - 48)

Webhooks == {None, Some(<<>>), Some(Url)}
LinkSettings == {None, Some(Str(1)), Some(Str(MinItems + 1))}
SeedSettings == {None, Some(Str(42)), Some(<<78, 111, 110, 101>>)}

Envs == [WECHAT_WEBHOOK : Webhooks, SEND_LINKS_PER_TYPE : LinkSettings,
         RANDOM_SEED : SeedSettings]

\* line 16: int(os.getenv("SEND_LINKS_PER_TYPE", 5))
LinksPerType(e) ==
    IF e.SEND_LINKS_PER_TYPE.some THEN IntOf(e.SEND_LINKS_PER_TYPE.val)
    ELSE DefaultLinksPerType

\* The names bound at module level when line 21 runs: the imports and the
\* assignments of lines 11-17.  Line 18 is a comment: it binds nothing.
ModuleNames ==
    {"pd", "requests", "json", "os", "time", "random", "Path", "defaultdict",
     "WECHAT_WEBHOOK", "EXCEL_FILE_PATH", "TARGET_COL_TYPE", "TARGET_COL_NAME",
     "TARGET_COL_LINK", "SEND_LINKS_PER_TYPE", "SEND_INTERVAL"}

Ev(e, i) == [ev |-> e, idx |-> i]

NoResponse == [kind |-> "none", isobj |-> FALSE, obj |-> <<>>]

\* What the locals and the trace hold before the script assigns them.
Unassigned ==
    /\ type_res = <<>>
    /\ idx = 0
    /\ random_res = <<>>
    /\ msg_content = <<>>
    /\ response = NoResponse
    /\ log = <<>>
    /\ exit_code = -1

----------------------------------------------------------------------------
(* The script from its first line: module-level configuration.             *)

ProgInit ==
    /\ pc = "module"
    /\ env \in Envs
    /\ WECHAT_WEBHOOK = None
    /\ SEND_LINKS_PER_TYPE = 0
    /\ file_exists \in BOOLEAN
    /\ file_parses \in BOOLEAN
    /\ header \in {FullHeader, <<TARGET_COL_TYPE, TARGET_COL_NAME>>}
    /\ table \in {Blocks(<<0>>, 1), Blocks(<<MinItems>>, 1),
                  Blocks(<<MinItems, MinItems - 1>>, 1)}
    /\ res_type = <<>>
    /\ res_list = <<>>
    /\ max_num = 0
    /\ Unassigned

\* lines 11-17: the configuration is read from the environment
ModuleConfig ==
    /\ pc = "module"
    /\ WECHAT_WEBHOOK' = env.WECHAT_WEBHOOK
    /\ SEND_LINKS_PER_TYPE' = LinksPerType(env)
    /\ pc' = "seed"
    /\ UNCHANGED <<exit_code, env, file_exists, file_parses, header, table,
                   type_res, idx, res_type, res_list, max_num, random_res,
                   msg_content, response, log>>

\* lines 21-22: the condition reads the global RANDOM_SEED.  Reading a name
\* that is not bound raises NameError; nothing catches it at module level,
\* so the interpreter prints the traceback and exits with code 1.
SeedSetup ==
    /\ pc = "seed"
    /\ IF "RANDOM_SEED" \in ModuleNames
       THEN pc' = "main" /\ UNCHANGED exit_code
       ELSE pc' = "exited" /\ exit_code' = 1
    /\ UNCHANGED <<env, WECHAT_WEBHOOK, SEND_LINKS_PER_TYPE, file_exists,
                   file_parses, header, table, type_res, idx, res_type,
                   res_list, max_num, random_res, msg_content, response, log>>

\* Every behaviour from the first line ends in SeedSetup, so the steps of the
\* __main__ block are not part of this next-state relation.
ProgNext == ModuleConfig \/ SeedSetup

ProgSpec == ProgInit /\ [][ProgNext]_vars

----------------------------------------------------------------------------
(* The __main__ block, lines 128-173.                                      *)

\* The state in which the __main__ block is entered: the module level has run
\* (the configuration is read, RANDOM_SEED is bound).
MainInit ==
    /\ pc = "main"
    /\ env \in {e \in Envs : e.RANDOM_SEED = None}
    /\ WECHAT_WEBHOOK = env.WECHAT_WEBHOOK
    /\ SEND_LINKS_PER_TYPE = LinksPerType(env)
    /\ file_exists \in BOOLEAN
    /\ file_parses \in BOOLEAN
    /\ header \in {FullHeader, <<TARGET_COL_TYPE, TARGET_COL_NAME>>}
    /\ table \in MainTables
    /\ res_type = <<>>
    /\ res_list = <<>>
    /\ max_num = 0
    /\ Unassigned

\* lines 132-135
CheckWebhook ==
    /\ pc = "main"
    /\ pc' = IF ~Truthy(WECHAT_WEBHOOK) THEN "fatal" ELSE "read"
    /\ UNCHANGED <<exit_code, env, WECHAT_WEBHOOK, SEND_LINKS_PER_TYPE,
                   file_exists, file_parses, header, table, type_res, idx,
                   res_type, res_list, max_num, random_res, msg_content,
                   response, log>>

\* lines 136-143: the call of read_excel_and_classify
ReadExcel ==
    /\ pc = "read"
    /\ LET r == ReadExcelAndClassify(file_exists, file_parses, header, table)
       IN  IF r.raised
           THEN pc' = "fatal" /\ UNCHANGED type_res
           ELSE pc' = "loaded" /\ type_res' = r.value
    /\ UNCHANGED <<exit_code, env, WECHAT_WEBHOOK, SEND_LINKS_PER_TYPE,
                   file_exists, file_parses, header, table, idx, res_type,
                   res_list, max_num, random_res, msg_content, response, log>>

\* lines 145-149: exit(0) raises SystemExit, which `except Exception` does
\* not catch
CheckTypes ==
    /\ pc = "loaded"
    /\ IF Len(type_res) = 0
       THEN pc' = "exited" /\ exit_code' = 0 /\ UNCHANGED idx
       ELSE pc' = "loop" /\ idx' = 1 /\ UNCHANGED exit_code
    /\ UNCHANGED <<env, WECHAT_WEBHOOK, SEND_LINKS_PER_TYPE, file_exists,
                   file_parses, header, table, type_res, res_type, res_list,
                   max_num, random_res, msg_content, response, log>>

\* TooFew with the threshold taken from the configured sample size
TooFew_BelowSampleSize(lst) == Len(lst) < SEND_LINKS_PER_TYPE

\* line 152: len(res_list) < 5
TooFew(lst) == Len(lst) < MinItems

\* lines 150-156: the next (type, list) pair, skipped when the list is short
LoopHead ==
    /\ pc = "loop"
    /\ idx <= Len(type_res)
    /\ res_type' = type_res[idx].key
    /\ res_list' = type_res[idx].items
    /\ IF TooFew(type_res[idx].items)
       THEN /\ log' = Append(log, Ev("skip", idx))
            /\ idx' = idx + 1
            /\ pc' = "loop"
       ELSE /\ log' = Append(log, Ev("start", idx))
            /\ pc' = "format"
            /\ UNCHANGED idx
    /\ UNCHANGED <<exit_code, env, WECHAT_WEBHOOK, SEND_LINKS_PER_TYPE,
                   file_exists, file_parses, header, table, type_res, max_num,
                   random_res, msg_content, response>>

\* lines 157-158: the call of format_single_type_message
Format ==
    /\ pc = "format"
    /\ max_num' = SEND_LINKS_PER_TYPE
    /\ \E s \in RandomSample(res_list, SampleCount(SEND_LINKS_PER_TYPE, res_list)) :
          /\ random_res' = s
          /\ msg_content' = FormatSingleTypeMessage(res_type, res_list, s)
    /\ log' = Append(log, Ev("format", idx))
    /\ pc' = "send"
    /\ UNCHANGED <<exit_code, env, WECHAT_WEBHOOK, SEND_LINKS_PER_TYPE,
                   file_exists, file_parses, header, table, type_res, idx,
                   res_type, res_list, response>>

\* Send without the inner try: what send_to_wechat_bot raises reaches the
\* handler of the outer try
Send_Propagates ==
    /\ pc = "send"
    /\ \E r \in Responses :
          LET out == SendToWechatBot(WECHAT_WEBHOOK, msg_content, r)
          IN  /\ response' = IF out.posted THEN r ELSE response
              /\ log' = log \o (IF out.posted THEN <<Ev("post", idx)>> ELSE <<>>)
                            \o <<Ev(IF out.ok THEN "sent" ELSE "failed", idx)>>
              /\ pc' = IF out.ok THEN "pace" ELSE "fatal"
    /\ UNCHANGED <<exit_code, env, WECHAT_WEBHOOK, SEND_LINKS_PER_TYPE,
                   file_exists, file_parses, header, table, type_res, idx,
                   res_type, res_list, max_num, random_res, msg_content>>

\* lines 160-163: the call of send_to_wechat_bot; what it raises is caught
\* and printed
Send ==
    /\ pc = "send"
    /\ \E r \in Responses :
          LET out == SendToWechatBot(WECHAT_WEBHOOK, msg_content, r)
          IN  /\ response' = IF out.posted THEN r ELSE response
              /\ log' = log \o (IF out.posted THEN <<Ev("post", idx)>> ELSE <<>>)
                            \o <<Ev(IF out.ok THEN "sent" ELSE "failed", idx)>>
    /\ pc' = "pace"
    /\ UNCHANGED <<exit_code, env, WECHAT_WEBHOOK, SEND_LINKS_PER_TYPE,
                   file_exists, file_parses, header, table, type_res, idx,
                   res_type, res_list, max_num, random_res, msg_content>>

\* MoreTypes that also holds at the last type
MoreTypes_AtLast(i, total) == i <= total

\* line 165: idx < total_types
MoreTypes(i, total) == i < total

\* lines 165-167: the pause, then the next iteration
Pace ==
    /\ pc = "pace"
    /\ log' = IF MoreTypes(idx, Len(type_res)) THEN Append(log, Ev("sleep", idx))
              ELSE log
    /\ idx' = idx + 1
    /\ pc' = "loop"
    /\ UNCHANGED <<exit_code, env, WECHAT_WEBHOOK, SEND_LINKS_PER_TYPE,
                   file_exists, file_parses, header, table, type_res, res_type,
                   res_list, max_num, random_res, msg_content, response>>

\* line 169: the loop is exhausted and the script ends
Finish ==
    /\ pc = "loop"
    /\ idx > Len(type_res)
    /\ pc' = "exited"
    /\ exit_code' = 0
    /\ UNCHANGED <<env, WECHAT_WEBHOOK, SEND_LINKS_PER_TYPE, file_exists,
                   file_parses, header, table, type_res, idx, res_type,
                   res_list, max_num, random_res, msg_content, response, log>>

\* Fatal with exit(0) in the handler
Fatal_ExitZero ==
    /\ pc = "fatal"
    /\ pc' = "exited"
    /\ exit_code' = 0
    /\ UNCHANGED <<env, WECHAT_WEBHOOK, SEND_LINKS_PER_TYPE, file_exists,
                   file_parses, header, table, type_res, idx, res_type,
                   res_list, max_num, random_res, msg_content, response, log>>

\* lines 171-173: the handler of the outer try
Fatal ==
    /\ pc = "fatal"
    /\ pc' = "exited"
    /\ exit_code' = 1
    /\ UNCHANGED <<env, WECHAT_WEBHOOK, SEND_LINKS_PER_TYPE, file_exists,
                   file_parses, header, table, type_res, idx, res_type,
                   res_list, max_num, random_res, msg_content, response, log>>

MainNext ==
    \/ CheckWebhook
    \/ ReadExcel
    \/ CheckTypes
    \/ LoopHead
    \/ Format
    \/ Send
    \/ Pace
    \/ Finish
    \/ Fatal

MainSpec == MainInit /\ [][MainNext]_vars

----------------------------------------------------------------------------
(* read_excel_and_classify alone, on every small sheet.                    *)

LoadInit ==
    /\ pc = "call_read"
    /\ env = [WECHAT_WEBHOOK |-> Some(Url), SEND_LINKS_PER_TYPE |-> None,
              RANDOM_SEED |-> None]
    /\ WECHAT_WEBHOOK = env.WECHAT_WEBHOOK
    /\ SEND_LINKS_PER_TYPE = LinksPerType(env)
    /\ file_exists \in BOOLEAN
    /\ file_parses \in BOOLEAN
    /\ header \in HeaderKinds
    /\ table \in SmallTables
    /\ res_type = <<>>
    /\ res_list = <<>>
    /\ max_num = 0
    /\ Unassigned

\* lines 25-71: one call of read_excel_and_classify
CallRead ==
    /\ pc = "call_read"
    /\ LET r == ReadExcelAndClassify(file_exists, file_parses, header, table)
       IN  /\ pc' = IF r.raised THEN "raised" ELSE "returned"
           /\ type_res' = r.value
    /\ UNCHANGED <<exit_code, env, WECHAT_WEBHOOK, SEND_LINKS_PER_TYPE,
                   file_exists, file_parses, header, table, idx, res_type,
                   res_list, max_num, random_res, msg_content, response, log>>

LoadSpec == LoadInit /\ [][CallRead]_vars

----------------------------------------------------------------------------
(* format_single_type_message alone, on every small list.                  *)

LongText == Rep(120, MaxMsgLen)

\* Items: ("n", "https://x"), ("m", "https://x") and one with a name as long
\* as the cap.
Items == {<<<<110>>, LinkX>>, <<<<109>>, LinkX>>, <<LongText, LinkX>>}

\* Type labels: "A" and one as long as the cap.
Labels == {<<65>>, Rep(65, MaxMsgLen)}

FormatInit ==
    /\ pc = "call_format"
    /\ env = [WECHAT_WEBHOOK |-> Some(Url), SEND_LINKS_PER_TYPE |-> None,
              RANDOM_SEED |-> None]
    /\ WECHAT_WEBHOOK = env.WECHAT_WEBHOOK
    /\ SEND_LINKS_PER_TYPE = LinksPerType(env)
    /\ file_exists = TRUE
    /\ file_parses = TRUE
    /\ header = FullHeader
    /\ table = <<>>
    /\ res_type \in Labels
    /\ res_list \in UNION {[1..n -> Items] : n \in 0..MaxList}
    /\ max_num \in 1..(MaxList + 1)
    /\ Unassigned

\* lines 74-92: one call of format_single_type_message
CallFormat ==
    /\ pc = "call_format"
    /\ \E s \in RandomSample(res_list, SampleCount(max_num, res_list)) :
          /\ random_res' = s
          /\ msg_content' = FormatSingleTypeMessage(res_type, res_list, s)
    /\ pc' = "returned"
    /\ UNCHANGED <<exit_code, env, WECHAT_WEBHOOK, SEND_LINKS_PER_TYPE,
                   file_exists, file_parses, header, table, type_res, idx,
                   res_type, res_list, max_num, response, log>>

FormatSpec == FormatInit /\ [][CallFormat]_vars

----------------------------------------------------------------------------
(* Properties of the driver loop, checked under MainSpec.                  *)

\* the positions of the trace that hold event e of type number i
Events(e, i) == {k \in 1..Len(log) : log[k] = Ev(e, i)}

\* the positions of the trace where type number i got its outcome
Outcomes(i) ==
    {k \in 1..Len(log) : log[k].idx = i /\ log[k].ev \in {"skip", "sent", "failed"}}

IsAttempt(k) == log[k].ev \in {"sent", "failed"}

\* a required column is absent from the header, names compared trimmed
RequiredMissing ==
    \E c \in {TARGET_COL_TYPE, TARGET_COL_NAME, TARGET_COL_LINK} :
        \A i \in 1..Len(header) : Strip(header[i]) # c

WebhookConfigured == env.WECHAT_WEBHOOK.some /\ env.WECHAT_WEBHOOK.val # <<>>

LoadError ==
    ~WebhookConfigured \/ ~file_exists \/ ~file_parses \/ RequiredMissing

\* C1: a type whose group holds fewer than 5 items is never formatted and
\* never sent, whatever SEND_LINKS_PER_TYPE is, and once the loop has passed
\* it, it has been recorded as skipped, once.
C1_ShortTypeSkipped ==
    \A i \in 1..Len(type_res) :
        Len(type_res[i].items) < 5 =>
            /\ Events("format", i) = {}
            /\ Events("post", i) = {}
            /\ Events("sent", i) = {}
            /\ Events("failed", i) = {}
            /\ i < idx => Cardinality(Events("skip", i)) = 1

C1_Witness ==
    /\ pc = "exited"
    /\ SEND_LINKS_PER_TYPE = 1
    /\ \E i, j \in 1..Len(type_res) :
          /\ Len(type_res[i].items) = 4
          /\ Events("skip", i) # {}
          /\ Events("post", j) # {}

\* C2: once a type has ended as failed the run is not aborted: the script
\* is not in its fatal handler, it can take a step until it has exited,
\* every type the loop has passed has exactly one outcome (and exactly one
\* POST if it has at least 5 items), and the script exits only after the
\* last type, with code 0.
C2_FailureDoesNotAbort ==
    (\E k \in 1..Len(log) : log[k].ev = "failed") =>
        /\ pc # "fatal"
        /\ pc = "exited" \/ ENABLED MainNext
        /\ \A i \in 1..Len(type_res) :
              i < idx =>
                  /\ Cardinality(Outcomes(i)) = 1
                  /\ Len(type_res[i].items) >= 5 =>
                         Cardinality(Events("post", i)) = 1
        /\ pc = "exited" => idx = Len(type_res) + 1 /\ exit_code = 0

C2_Witness ==
    /\ pc = "exited"
    /\ \E i, j \in 1..Len(type_res) :
          /\ i < j
          /\ Events("failed", i) # {}
          /\ Events("post", j) # {}
          /\ Events("sent", j) # {}

\* C3: when the webhook is not configured, the file does not exist, the
\* file cannot be parsed or a required column is missing, no POST is ever
\* issued, the script can take a step until it has exited, and it exits
\* with a non-zero code.
C3_LoadErrorsAreFatal ==
    LoadError =>
        /\ \A k \in 1..Len(log) : log[k].ev # "post"
        /\ pc = "exited" \/ ENABLED MainNext
        /\ pc = "exited" => exit_code > 0

C3_Witness ==
    /\ pc = "exited"
    /\ exit_code = 1
    /\ WebhookConfigured
    /\ file_exists
    /\ file_parses
    /\ RequiredMissing
    /\ Len(table) >= 5

\* C9: after the call of send_to_wechat_bot the type is recorded as sent if
\* and only if the POST completed, the body is a JSON object and its errcode
\* is the integer 0; otherwise it is recorded as failed; and in either case
\* exactly one POST was issued for the type, and never a second.
C9_SentIffErrcodeZero ==
    /\ \A i \in 1..Len(type_res) :
          /\ Cardinality(Events("post", i)) <= 1
          /\ Cardinality(Outcomes(i)) <= 1
    /\ pc = "pace" =>
          /\ Len(log) >= 2
          /\ log[Len(log) - 1] = Ev("post", idx)
          /\ log[Len(log)] \in {Ev("sent", idx), Ev("failed", idx)}
          /\ log[Len(log)] = Ev("sent", idx) <=>
                 /\ response.kind = "json"
                 /\ response.isobj
                 /\ "errcode" \in DOMAIN response.obj
                 /\ response.obj["errcode"] = [t |-> "int", i |-> 0, s |-> ""]

C9_Witness ==
    /\ pc = "exited"
    /\ response.kind = "json"
    /\ response.isobj
    /\ "errcode" \notin DOMAIN response.obj
    /\ \E i \in 1..Len(type_res) :
          /\ log[Len(log)] = Ev("failed", i)
          /\ Cardinality(Events("post", i)) = 1

\* C10: a pause directly follows a send attempt of a type that is not the
\* last of the catalog, and happens nowhere else: not after a skip, not
\* after the last type; so exactly one pause lies between two consecutive
\* send attempts.
C10_Pacing ==
    /\ \A k \in 1..Len(log) :
          log[k].ev = "sleep" =>
              /\ k > 1
              /\ IsAttempt(k - 1)
              /\ log[k - 1].idx = log[k].idx
              /\ log[k].idx < Len(type_res)
    /\ \A k \in 1..Len(log) :
          IsAttempt(k) =>
              IF log[k].idx < Len(type_res)
              THEN IF k < Len(log) THEN log[k + 1] = Ev("sleep", log[k].idx)
                   ELSE pc = "pace"
              ELSE k = Len(log)
    /\ \A k, m \in 1..Len(log) :
          (/\ k < m
           /\ IsAttempt(k)
           /\ IsAttempt(m)
           /\ \A j \in (k + 1)..(m - 1) : ~IsAttempt(j)) =>
              Cardinality({j \in k..m : log[j].ev = "sleep"}) = 1
    /\ \A k, j \in 1..Len(log) :
          k < j /\ log[k].idx = Len(type_res) => log[j].ev # "sleep"

C10_Witness ==
    /\ pc = "exited"
    /\ Len(type_res) = 3
    /\ Events("post", 1) # {}
    /\ Events("sleep", 1) # {}
    /\ Events("skip", 2) # {}
    /\ Events("post", 3) # {}
    /\ Events("sleep", 3) = {}

----------------------------------------------------------------------------
(* Property of the script from its first line, checked under ProgSpec.     *)

\* C5: with the webhook configured and a file that loads without error, the
\* process exits with code 0, from the first line of the script on and
\* whatever RANDOM_SEED is in the environment.
C5_ExitZeroWhenLoaded ==
    (/\ pc = "exited"
     /\ WebhookConfigured
     /\ file_exists
     /\ file_parses
     /\ ~RequiredMissing) => exit_code = 0

----------------------------------------------------------------------------
(* Properties of read_excel_and_classify, checked under LoadSpec.          *)

\* the items of the catalog's group keyed t, none when there is no group
GroupOf(t) ==
    IF KeyIndex(type_res, t) = 0 THEN <<>> ELSE type_res[KeyIndex(type_res, t)].items

\* the (name, link) pair a sheet row is stored as
ItemOf(row) ==
    <<IF Strip(row.name) = <<>> THEN <<26080, 21517, 31216>> ELSE Strip(row.name),
      Strip(row.link)>>

ItemsOf(rows) == [i \in 1..Len(rows) |-> ItemOf(rows[i])]

\* a row the specification calls valid: trimmed link with an http:// or
\* https:// prefix, trimmed type non-empty
SpecValid(row) ==
    /\ Strip(row.type) # <<>>
    /\ \/ StartsWith(Strip(row.link), <<104, 116, 116, 112, 58, 47, 47>>)
       \/ StartsWith(Strip(row.link), <<104, 116, 116, 112, 115, 58, 47, 47>>)

\* the sheet rows that are valid and whose trimmed type is t, in row order
ValidRowsOf(t) ==
    LET Test(row) == SpecValid(row) /\ Strip(row.type) = t
    IN  SelectSeq(table, Test)

TypesSeen ==
    {Strip(table[i].type) : i \in 1..Len(table)}
        \cup {type_res[i].key : i \in 1..Len(type_res)}

\* C4: the catalog returned holds exactly the rows whose trimmed link has
\* an http:// or https:// prefix and whose trimmed type is non-empty: each
\* type's group is the list of those rows, and no group is keyed by the
\* empty type.
C4_RetainedIffValid ==
    pc = "returned" =>
        /\ \A t \in TypesSeen : GroupOf(t) = ItemsOf(ValidRowsOf(t))
        /\ \A i \in 1..Len(type_res) : type_res[i].key # <<>>

\* the rows the filter of the loader lets through, cleaned, in row order
Retained == DfClean(table)

RetainedOf(t) ==
    LET Test(row) == row.type = t
    IN  SelectSeq(Retained, Test)

FirstRow(t) ==
    CHOOSE k \in 1..Len(Retained) :
        Retained[k].type = t /\ \A j \in 1..(k - 1) : Retained[j].type # t

----------------------------------------------------------------------------
(* Properties of format_single_type_message, checked under FormatSpec.     *)

Min(a, b) == IF a < b THEN a ELSE b

\* sample can be drawn from lst taking every position at most once
IsDraw(sample, lst) ==
    \E p \in [1..Len(sample) -> 1..Len(lst)] :
        /\ \A i, j \in 1..Len(sample) : i # j => p[i] # p[j]
        /\ \A i \in 1..Len(sample) : sample[i] = lst[p[i]]

\* the label followed by the total count and the sampled count
CountsText(label, total, k) ==
    label \o <<20849>> \o Str(total) \o <<26465, 65292, 38543, 26426, 25277, 21462>>
          \o Str(k) \o <<26465>>

DrawnRight ==
    /\ Len(random_res) = Min(max_num, Len(res_list))
    /\ Len(random_res) <= Len(res_list)
    /\ IsDraw(random_res, res_list)

\* C7 as stated: for a non-empty list the sample has min(max_num, len)
\* entries, drawn from distinct positions, and the message opens with the
\* label, the total count and the sampled count.
C7_SampleAndHeader ==
    pc = "returned" /\ res_list # <<>> =>
        /\ DrawnRight
        /\ StartsWith(msg_content,
                      CountsText(res_type, Len(res_list), Min(max_num, Len(res_list))))

\* C7 as amended: the same, the header reporting the counts whenever the
\* label followed by the counts fits within the 4000-character cap.
C7_SampleAndHeaderWithinCap ==
    pc = "returned" /\ res_list # <<>> =>
        /\ DrawnRight
        /\ Len(CountsText(res_type, Len(res_list), Min(max_num, Len(res_list)))) <= 4000 =>
               StartsWith(msg_content,
                          CountsText(res_type, Len(res_list), Min(max_num, Len(res_list))))

C7_Witness ==
    /\ pc = "returned"
    /\ Len(res_list) = 3
    /\ max_num = 2
    /\ Len(random_res) = 2
    /\ random_res[1] # random_res[2]
    /\ StartsWith(msg_content, CountsText(<<65>>, 3, 2))

\* the text of one sampled item in the message: name, colon, newline, link
ItemText(item) == item[1] \o <<65306, 10>> \o item[2]

\* the length of the i-th numbered entry
RECURSIVE EntriesLen(_, _)
EntriesLen(sample, i) ==
    IF i > Len(sample) THEN 0
    ELSE 1 + Len(Str(i)) + 2 + Len(sample[i][1]) + 2 + Len(sample[i][2])
         + EntriesLen(sample, i + 1)

\* the length of the text assembled from the header, the entries (one per
\* line) and the footer, before any cut
AssembledLen ==
    Len(res_type) + 1 + Len(Str(Len(res_list))) + 6 + Len(Str(Len(random_res))) + 4
    + EntriesLen(random_res, 1) + (Len(random_res) - 1) + 2 + Len(Footer)

EndsWith(s, t) == Len(s) >= Len(t) /\ SubSeq(s, Len(s) - Len(t) + 1, Len(s)) = t

\* C8 as stated: the message for a non-empty list holds every sampled item
\* and the whole footer, and is at most 4000 characters long.
C8_ItemsFooterAndCap ==
    pc = "returned" /\ res_list # <<>> =>
        /\ \A i \in 1..Len(random_res) : Contains(msg_content, ItemText(random_res[i]))
        /\ Contains(msg_content, Footer)
        /\ Len(msg_content) <= 4000

\* C8 as amended: the message is at most 4000 characters long; when the
\* assembled text fits the cap the message is all of it, holds every
\* sampled item and ends with the whole footer; when it does not, the
\* message is cut to exactly 4000 characters.
C8_CapAndFooterWhenItFits ==
    pc = "returned" /\ res_list # <<>> =>
        /\ Len(msg_content) <= 4000
        /\ IF AssembledLen <= 4000
           THEN /\ Len(msg_content) = AssembledLen
                /\ \A i \in 1..Len(random_res) :
                      Contains(msg_content, ItemText(random_res[i]))
                /\ EndsWith(msg_content, Footer)
           ELSE Len(msg_content) = 4000

C8_Witness ==
    /\ pc = "returned"
    /\ res_type = <<65>>
    /\ Len(random_res) = 2
    /\ Len(random_res[2][1]) > 1
    /\ AssembledLen > 4000
    /\ Len(msg_content) = 4000
    /\ Contains(msg_content, ItemText(random_res[1]))
    /\ ~Contains(msg_content, ItemText(random_res[2]))
    /\ ~Contains(msg_content, Footer)

====
